---- MODULE Spec2Model ----
(***************************************************************************)
(* Model of SNMPInterfaceDiscovery (snmpinterfacediscovery.py): a          *)
(* discovery run reads the shared catalog oids.lst, drops the lines of the *)
(* host it discovers, walks the device's interface table over SNMP,        *)
(* builds the catalog records and rewrites the whole file.                 *)
(*                                                                         *)
(* Texts are sequences of symbols.  A symbol is one character (interface   *)
(* names, which the code rewrites character by character) or a chunk of    *)
(* text that the code only ever copies, compares or searches as a whole    *)
(* (an OID, "devices", a host).  "10.0.0.11" is <<"10.0.0.1", "1">>, so    *)
(* that the substring test of parse_oid_file sees "10.0.0.1" inside it.    *)
(***************************************************************************)
EXTENDS Integers, Sequences, FiniteSets, TLC

\* ------------------------------------------------------------------ bounds
\* discovery runs started in one behaviour
MaxRuns == 2
\* rows the interface-index walk of the enumerator specification returns
MaxIf == 2
\* SNMP / file-system failures injected in one behaviour
MaxFaults == 1
\* characters of an interface name in the name specification
MaxNameLen == 3

\* --------------------------------------------------------------- constants
IF_MIB_INDEX_OID == "1.3.6.1.2.1.2.2.1.1"
IF_MIB_NAME_OID == "1.3.6.1.2.1.31.1.1.1.1"
IF_MIB_TYPE_OID == "1.3.6.1.2.1.2.2.1.3"
IF_MIB_STATUS_OID == "1.3.6.1.2.1.2.2.1.8"
VENDOR_DESC_OID == "1.3.6.1.2.1.1.1.0"
IOS_XE_CPU_OID == "1.3.6.1.4.1.9.9.109.1.1.1.1.7.2"
CISCO_LEGACY_CPU_OID == "1.3.6.1.4.1.9.9.109.1.1.1.1.7.1"
GENERIC_CPU_OID == "1.3.6.1.4.1.1588.2.1.1.1.26.1.0"

\* the hex signatures get_environment_oid looks for
SIG_IOS_XE == "494f532d5845"
SIG_CISCO == "436973636f"

\* metric name -> base OID, in the order the literal lists them
IF_MIB_GAUGE_OID_TABLE ==
    << << <<"ifInDiscards">>, "1.3.6.1.2.1.2.2.1.13" >>,
       << <<"ifInErrors">>, "1.3.6.1.2.1.2.2.1.14" >>,
       << <<"ifOutDiscards">>, "1.3.6.1.2.1.2.2.1.19" >>,
       << <<"ifOutErrors">>, "1.3.6.1.2.1.2.2.1.20" >> >>

\* the octets counters are <<prefix, "Octets">> so that replace('Octets', unit)
\* is a replacement of one symbol
IF_MIB_COUNTER_OID_TABLE ==
    << << <<"ifIn", "Octets">>, "1.3.6.1.2.1.31.1.1.1.6" >>,
       << <<"ifInUcastPkts">>, "1.3.6.1.2.1.31.1.1.1.7" >>,
       << <<"ifInMulticastPkts">>, "1.3.6.1.2.1.31.1.1.1.8" >>,
       << <<"ifInBroadcastPkts">>, "1.3.6.1.2.1.31.1.1.1.9" >>,
       << <<"ifOut", "Octets">>, "1.3.6.1.2.1.31.1.1.1.10" >>,
       << <<"ifOutUcastPkts">>, "1.3.6.1.2.1.31.1.1.1.11" >>,
       << <<"ifOutMulticastPkts">>, "1.3.6.1.2.1.31.1.1.1.12" >>,
       << <<"ifOutBroadcastPkts">>, "1.3.6.1.2.1.31.1.1.1.13" >> >>

IF_TYPES == {"6", "135", "131"}
IF_STATUS == {"1"}

\* the names make_counter_desc tests counterName against
HC_OCTETS_NAMES == { <<"ifHCIn", "Octets">>, <<"ifHCOut", "Octets">> }

\* get_default_config
ConfigPath == <<"interface">>
ConfigByteUnit == << "bit", "byte" >>

\* ------------------------------------------------------------------- texts
\* Python's  pat in s  on texts
Contains(pat, s) ==
    \E i \in 0..(Len(s) - Len(pat)) : SubSeq(s, i + 1, i + Len(pat)) = pat

RECURSIVE Join(_, _)
\* sep.join(parts)
Join(sep, parts) ==
    IF parts = <<>> THEN <<>>
    ELSE IF Len(parts) = 1 THEN parts[1]
    ELSE parts[1] \o sep \o Join(sep, Tail(parts))

WordChars ==
    {"a", "b", "e", "t", "h", "G", "i", "0", "1", "2", "_"}

\* re.sub(r'(\"|\')', '', ifName)
StripQuotes(name) == SelectSeq(name, LAMBDA c : c \notin {"\"", "'"})

\* mutant: the pattern also spares the dot
ReplaceNonWord_dot(name) ==
    [k \in 1..Len(name) |-> IF name[k] \in WordChars \cup {"."} THEN name[k] ELSE "_"]

\* re.sub(r'\W', '_', ifName)
ReplaceNonWord(name) ==
    [k \in 1..Len(name) |-> IF name[k] \in WordChars THEN name[k] ELSE "_"]

\* counterName.replace('Octets', unit)
ReplaceOctets(counterName, unit) ==
    [k \in 1..Len(counterName) |->
        IF counterName[k] = "Octets" THEN unit ELSE counterName[k]]

\* 'K,{0},{1},{2},{3}'.format(host, community, oid, metricPath)
FormatDesc(kind, host, community, oid, metricPath) ==
    Join(<<",">>, << <<kind>>, host, community, oid, metricPath >>)

\* ------------------------------------------------------------ record builders
\* '.'.join(['devices', device, self.config['path'], metricName])
MetricPath(device, metricName) ==
    Join(<<".">>, << <<"devices">>, device, ConfigPath, metricName >>)

\* one oidDesc per entry of the gauge table
make_gauge_desc(device, host, community, ifName, ifIndex) ==
    [k \in 1..Len(IF_MIB_GAUGE_OID_TABLE) |->
        LET gaugeName == IF_MIB_GAUGE_OID_TABLE[k][1]
            ifGaugeOid == Join(<<".">>, << <<IF_MIB_GAUGE_OID_TABLE[k][2]>>, <<ifIndex>> >>)
            metricIfDescr == ReplaceNonWord(ifName)
            metricName == Join(<<".">>, << metricIfDescr, gaugeName >>)
        IN  FormatDesc("G", host, community, ifGaugeOid, MetricPath(device, metricName))]

\* The metric name of one counter.  In the octets branch the loop over
\* byte_unit only reassigns metricName and metricPath, so the last unit wins;
\* the single append follows the if/else.
CounterMetricName(ifName, counterName) ==
    LET metricIfDescr == ReplaceNonWord(ifName)
    IN  IF counterName \in HC_OCTETS_NAMES
        THEN Join(<<".">>, << metricIfDescr,
                   ReplaceOctets(counterName, ConfigByteUnit[Len(ConfigByteUnit)]) >>)
        ELSE Join(<<".">>, << metricIfDescr, counterName >>)

\* one oidDesc per entry of the counter table
make_counter_desc(device, host, community, ifName, ifIndex) ==
    [k \in 1..Len(IF_MIB_COUNTER_OID_TABLE) |->
        LET counterName == IF_MIB_COUNTER_OID_TABLE[k][1]
            ifCounterOid == Join(<<".">>, << <<IF_MIB_COUNTER_OID_TABLE[k][2]>>, <<ifIndex>> >>)
            metricName == CounterMetricName(ifName, counterName)
        IN  FormatDesc("C", host, community, ifCounterOid, MetricPath(device, metricName))]

\* mutant: the test skips an index only when both type and status are wrong
Accepted_either(ifType, ifStatus) == ifType \in IF_TYPES \/ ifStatus \in IF_STATUS

\* IF_TYPES / IF_STATUS test of get_interface_indexes
Accepted(ifType, ifStatus) == ifType \in IF_TYPES /\ ifStatus \in IF_STATUS

\* mutant: gauge and counter records whatever the type
InterfaceDescs_both(device, host, community, ifType, rawName, ifIndex) ==
    make_gauge_desc(device, host, community, StripQuotes(rawName), ifIndex)
    \o make_counter_desc(device, host, community, StripQuotes(rawName), ifIndex)

\* the records get_interface_indexes appends for one accepted index
InterfaceDescs(device, host, community, ifType, rawName, ifIndex) ==
    LET ifName == StripQuotes(rawName)
    IN  IF ifType = "135"
        THEN make_counter_desc(device, host, community, ifName, ifIndex)
        ELSE make_gauge_desc(device, host, community, ifName, ifIndex)
             \o make_counter_desc(device, host, community, ifName, ifIndex)

\* mutant: the Cisco signature is tested before the IOS-XE signature
CpuOid_cisco_first(vendorHexString) ==
    IF Contains(<<SIG_CISCO>>, vendorHexString) THEN CISCO_LEGACY_CPU_OID
    ELSE IF Contains(<<SIG_IOS_XE>>, vendorHexString) THEN IOS_XE_CPU_OID
    ELSE GENERIC_CPU_OID

\* the OID get_environment_oid picks for a vendor description
CpuOid(vendorHexString) ==
    IF Contains(<<SIG_IOS_XE>>, vendorHexString) THEN IOS_XE_CPU_OID
    ELSE IF Contains(<<SIG_CISCO>>, vendorHexString) THEN CISCO_LEGACY_CPU_OID
    ELSE GENERIC_CPU_OID

\* the metric name get_environment_oid picks for a vendor description
CpuMetric(vendorHexString) ==
    IF Contains(<<SIG_IOS_XE>>, vendorHexString) THEN "1min_average_percent"
    ELSE IF Contains(<<SIG_CISCO>>, vendorHexString) THEN "1min_average_percent"
    ELSE "current_percent"

\* the single oidDesc get_environment_oid appends
get_environment_oid(device, host, community, vendorHexString) ==
    FormatDesc("G", host, community, <<CpuOid(vendorHexString)>>,
               Join(<<".">>, << <<"devices">>, device, <<"cpu">>,
                                <<CpuMetric(vendorHexString)>> >>))

\* mutant: the comprehension keeps the lines of the host
parse_oid_file_inverted(curOids, host) ==
    SelectSeq(curOids, LAMBDA item : Contains(host, item))

\* mutant: nothing is deleted
parse_oid_file_keepall(curOids, host) == curOids

\* mutant: only the first line of the host is deleted
parse_oid_file_first(curOids, host) ==
    LET hits == { k \in 1..Len(curOids) : Contains(host, curOids[k]) }
    IN  IF hits = {} THEN curOids
        ELSE LET m == CHOOSE k \in hits : \A j \in hits : k <= j
             IN  SubSeq(curOids, 1, m - 1) \o SubSeq(curOids, m + 1, Len(curOids))

\* oidlist of parse_oid_file: the lines that do not contain the host
parse_oid_file(curOids, host) ==
    SelectSeq(curOids, LAMBDA item : ~Contains(host, item))

\* ------------------------------------------------------------- configuration
\* the [devices] sections: router3's host 10.0.0.11 contains router1's host
Devices ==
    { [device |-> <<"router1">>, host |-> <<"10.0.0.1">>, community |-> <<"public">>],
      [device |-> <<"router2">>, host |-> <<"10.0.0.2">>, community |-> <<"public">>],
      [device |-> <<"router3">>, host |-> <<"10.0.0.1", "1">>, community |-> <<"public">>] }

NoDevice == [device |-> <<>>, host |-> <<>>, community |-> <<>>]

\* the discovery runs that may be in progress
Procs == {1, 2}

\* what the devices may answer
IndexPool == <<"5", "7", "9">>

\* the OID under which the walk reports each of them: the key of its row
IndexKeys ==
    [v \in {"5", "7", "9"} |->
        CASE v = "5" -> "1.3.6.1.2.1.2.2.1.1.5"
          [] v = "7" -> "1.3.6.1.2.1.2.2.1.1.7"
          [] v = "9" -> "1.3.6.1.2.1.2.2.1.1.9"]

\* the dictionary self.walk returns for a device that reports these indices,
\* in the order the dictionary is iterated
WalkData(values) ==
    [k \in 1..Len(values) |-> [key |-> IndexKeys[values[k]], value |-> values[k]]]

\* mutant: the keys of the walk rows are taken
ValuesOf_keys(data) == [k \in 1..Len(data) |-> data[k].key]

\* [v for v in ifIndexData.values()]
ValuesOf(data) == [k \in 1..Len(data) |-> data[k].value]
IfTypeValues == {"6", "135", "131", "24"}
IfStatusValues == {"1", "2"}
IfNameValues == { <<"e", "/", "0">>, <<"\"", "e", "_", "0", "\"">> }
VendorValues ==
    { <<"0x", SIG_CISCO, "20", SIG_IOS_XE>>, <<"0x", SIG_IOS_XE>>,
      <<"0x", SIG_CISCO, "20">>, <<"0x", "4a756e6f73">> }
WalkValues == { WalkData(SubSeq(IndexPool, 1, n)) : n \in 0..MaxIf }

\* a line of NUL bytes, left where a writer seeks past the end of the file
Hole == <<"NUL">>

VARIABLES
    file,       \* the lines of OIDFILE on disk
    exists,     \* whether OIDFILE exists
    pc,         \* pc[p]: where run p stands
    dev,        \* dev[p]: the device section run p discovers
    OIDS,       \* OIDS[p]: self.OIDS of run p
    ifIndexData, \* ifIndexData[p]: the rows the index walk returned
    ifIndexes,  \* ifIndexes[p]: the values the index walk returned
    pos,        \* pos[p]: position of the for loop in ifIndexes
    ifTypeData, \* ifTypeData[p]: type of the index being processed
    ifStatusData, \* ifStatusData[p]: status of the index being processed
    wpos,       \* wpos[p]: lines run p wrote through its open file
    err,        \* err[p]: the step whose exception ended run p
    before,     \* before[p]: the catalog when run p started (history)
    readOk,     \* readOk[p]: whether run p's load read the file (history)
    rows,       \* rows[p]: the answers run p got per index (history)
    vendor,     \* vendor[p]: the vendor description run p got (history)
    prev,       \* prev[p]: the run p did before this one (history)
    runs,       \* runs started
    faults      \* failures injected

vars == << file, exists, pc, dev, OIDS, ifIndexData, ifIndexes, pos, ifTypeData, ifStatusData,
           wpos, err, before, readOk, rows, vendor, prev, runs, faults >>

NoPrev == [dev |-> NoDevice, ifIndexes |-> <<>>, rows |-> <<>>, vendor |-> <<>>,
           ok |-> FALSE, err |-> ""]

\* ------------------------------------------------------------- derived values
\* curOids of run p's parse_oid_file
CurOids(p) == IF readOk[p] THEN before[p].lines ELSE <<>>

\* the lines run p kept from the catalog it loaded
Kept(p) == parse_oid_file(CurOids(p), dev[p].host)

\* the records run p has built so far: self.OIDS after the kept lines
Built(p) == SubSeq(OIDS[p], Len(Kept(p)) + 1, Len(OIDS[p]))

\* the lines of a catalog that contain a host
HostLines(lines, host) == SelectSeq(lines, LAMBDA item : Contains(host, item))

\* is x a member of the sequence s
InSeq(x, s) == \E k \in 1..Len(s) : s[k] = x

\* the line a write at line offset k leaves in place
WriteAt(lines, k, line) ==
    IF k <= Len(lines) THEN [lines EXCEPT ![k] = line]
    ELSE lines \o [j \in 1..(k - Len(lines) - 1) |-> Hole] \o <<line>>

\* the catalogs a behaviour may find on disk: none, an empty one, and one that
\* earlier runs for router2, router3 and router1 left behind
StockCatalog ==
    << get_environment_oid(<<"router2">>, <<"10.0.0.2">>, <<"public">>, <<"0x", SIG_CISCO, "20">>) >>
    \o << get_environment_oid(<<"router3">>, <<"10.0.0.1", "1">>, <<"public">>, <<"0x", SIG_CISCO, "20">>) >>
    \o InterfaceDescs(<<"router1">>, <<"10.0.0.1">>, <<"public">>, "135", <<"e", "/", "0">>, "7")
    \o << get_environment_oid(<<"router1">>, <<"10.0.0.1">>, <<"public">>, <<"0x", "4a756e6f73">>) >>

InitBase ==
    /\ pc = [p \in Procs |-> "idle"]
    /\ dev = [p \in Procs |-> NoDevice]
    /\ OIDS = [p \in Procs |-> <<>>]
    /\ ifIndexData = [p \in Procs |-> <<>>]
    /\ ifIndexes = [p \in Procs |-> <<>>]
    /\ pos = [p \in Procs |-> 0]
    /\ ifTypeData = [p \in Procs |-> ""]
    /\ ifStatusData = [p \in Procs |-> ""]
    /\ wpos = [p \in Procs |-> 0]
    /\ err = [p \in Procs |-> ""]
    /\ before = [p \in Procs |-> [exists |-> FALSE, lines |-> <<>>]]
    /\ readOk = [p \in Procs |-> FALSE]
    /\ rows = [p \in Procs |-> <<>>]
    /\ vendor = [p \in Procs |-> <<>>]
    /\ prev = [p \in Procs |-> NoPrev]
    /\ runs = 0
    /\ faults = 0

Init ==
    /\ InitBase
    /\ \/ exists = FALSE /\ file = <<>>
       \/ exists = TRUE /\ file \in { <<>>, StockCatalog }

\* -------------------------------------------------------------------- actions
\* what a run leaves behind for the next run of the same process
Summary(p) ==
    IF pc[p] = "idle" THEN NoPrev
    ELSE [dev |-> dev[p], ifIndexes |-> ifIndexes[p], rows |-> rows[p],
          vendor |-> vendor[p], ok |-> (pc[p] = "done"), err |-> err[p]]

\* mutant: the purged list is written back to OIDFILE as soon as it is loaded
Enter_persist(p, d, curOids, ok) ==
    /\ pc[p] \in {"idle", "done", "failed"}
    /\ runs < MaxRuns
    /\ runs' = runs + 1
    /\ prev' = [prev EXCEPT ![p] = Summary(p)]
    /\ dev' = [dev EXCEPT ![p] = d]
    /\ before' = [before EXCEPT ![p] = [exists |-> exists, lines |-> file]]
    /\ readOk' = [readOk EXCEPT ![p] = ok]
    /\ OIDS' = [OIDS EXCEPT ![p] = parse_oid_file(curOids, d.host)]
    /\ ifIndexData' = [ifIndexData EXCEPT ![p] = <<>>]
    /\ ifIndexes' = [ifIndexes EXCEPT ![p] = <<>>]
    /\ pos' = [pos EXCEPT ![p] = 0]
    /\ ifTypeData' = [ifTypeData EXCEPT ![p] = ""]
    /\ ifStatusData' = [ifStatusData EXCEPT ![p] = ""]
    /\ wpos' = [wpos EXCEPT ![p] = 0]
    /\ err' = [err EXCEPT ![p] = ""]
    /\ rows' = [rows EXCEPT ![p] = <<>>]
    /\ vendor' = [vendor EXCEPT ![p] = <<>>]
    /\ pc' = [pc EXCEPT ![p] = "walk"]
    /\ file' = parse_oid_file(curOids, d.host)
    /\ exists' = TRUE

\* entry of collect_snmp with the given result of reading OIDFILE
Enter(p, d, curOids, ok) ==
    /\ pc[p] \in {"idle", "done", "failed"}
    /\ runs < MaxRuns
    /\ runs' = runs + 1
    /\ prev' = [prev EXCEPT ![p] = Summary(p)]
    /\ dev' = [dev EXCEPT ![p] = d]
    /\ before' = [before EXCEPT ![p] = [exists |-> exists, lines |-> file]]
    /\ readOk' = [readOk EXCEPT ![p] = ok]
    /\ OIDS' = [OIDS EXCEPT ![p] = parse_oid_file(curOids, d.host)]
    /\ ifIndexData' = [ifIndexData EXCEPT ![p] = <<>>]
    /\ ifIndexes' = [ifIndexes EXCEPT ![p] = <<>>]
    /\ pos' = [pos EXCEPT ![p] = 0]
    /\ ifTypeData' = [ifTypeData EXCEPT ![p] = ""]
    /\ ifStatusData' = [ifStatusData EXCEPT ![p] = ""]
    /\ wpos' = [wpos EXCEPT ![p] = 0]
    /\ err' = [err EXCEPT ![p] = ""]
    /\ rows' = [rows EXCEPT ![p] = <<>>]
    /\ vendor' = [vendor EXCEPT ![p] = <<>>]
    /\ pc' = [pc EXCEPT ![p] = "walk"]
    /\ UNCHANGED << file, exists >>

\* collect_snmp is called and parse_oid_file reads the catalog
collect_snmp(p, d) ==
    /\ exists
    /\ Enter(p, d, file, TRUE)
    /\ UNCHANGED faults

\* mutant: on IOError the list of the previous run is used
collect_snmp_IOError_stale(p, d) ==
    /\ ~exists \/ faults < MaxFaults
    /\ Enter(p, d, OIDS[p], FALSE)
    /\ faults' = IF exists THEN faults + 1 ELSE faults

\* collect_snmp is called and parse_oid_file's open or read raises IOError:
\* the file is missing, or it is there and cannot be read
collect_snmp_IOError(p, d) ==
    /\ ~exists \/ faults < MaxFaults
    /\ Enter(p, d, <<>>, FALSE)
    /\ faults' = IF exists THEN faults + 1 ELSE faults

\* where the for loop of get_interface_indexes goes after position k
AfterIndex(p, k) == IF k < Len(ifIndexes[p]) THEN "type" ELSE "vendor"

\* self.walk returns the index table
Walk(p, w) ==
    /\ pc[p] = "walk"
    /\ ifIndexData' = [ifIndexData EXCEPT ![p] = w]
    /\ ifIndexes' = [ifIndexes EXCEPT ![p] = ValuesOf(w)]
    /\ pos' = [pos EXCEPT ![p] = IF w = <<>> THEN 0 ELSE 1]
    /\ pc' = [pc EXCEPT ![p] = IF w = <<>> THEN "vendor" ELSE "type"]
    /\ UNCHANGED << file, exists, dev, OIDS, ifTypeData, ifStatusData, wpos, err,
                    before, readOk, rows, vendor, prev, runs, faults >>

\* self.get of the interface type
GetType(p, t) ==
    /\ pc[p] = "type"
    /\ ifTypeData' = [ifTypeData EXCEPT ![p] = t]
    /\ pc' = [pc EXCEPT ![p] = "status"]
    /\ UNCHANGED << file, exists, dev, OIDS, ifIndexData, ifIndexes, pos, ifStatusData, wpos, err,
                    before, readOk, rows, vendor, prev, runs, faults >>

\* self.get of the interface status, then the type / status test
GetStatus(p, st) ==
    /\ pc[p] = "status"
    /\ ifStatusData' = [ifStatusData EXCEPT ![p] = st]
    /\ IF Accepted(ifTypeData[p], st)
       THEN /\ pc' = [pc EXCEPT ![p] = "name"]
            /\ UNCHANGED << pos, rows >>
       ELSE /\ pc' = [pc EXCEPT ![p] = AfterIndex(p, pos[p])]
            /\ pos' = [pos EXCEPT ![p] = pos[p] + 1]
            /\ rows' = [rows EXCEPT ![p] = Append(rows[p],
                          [index |-> ifIndexes[p][pos[p]], type |-> ifTypeData[p],
                           status |-> st, name |-> <<>>])]
    /\ UNCHANGED << file, exists, dev, OIDS, ifIndexData, ifIndexes, ifTypeData, wpos, err,
                    before, readOk, vendor, prev, runs, faults >>

\* self.get of the interface name, then make_gauge_desc / make_counter_desc
GetName(p, n) ==
    /\ pc[p] = "name"
    /\ OIDS' = [OIDS EXCEPT ![p] = OIDS[p] \o
                  InterfaceDescs(dev[p].device, dev[p].host, dev[p].community,
                                 ifTypeData[p], n, ifIndexes[p][pos[p]])]
    /\ pc' = [pc EXCEPT ![p] = AfterIndex(p, pos[p])]
    /\ pos' = [pos EXCEPT ![p] = pos[p] + 1]
    /\ rows' = [rows EXCEPT ![p] = Append(rows[p],
                  [index |-> ifIndexes[p][pos[p]], type |-> ifTypeData[p],
                   status |-> ifStatusData[p], name |-> n])]
    /\ UNCHANGED << file, exists, dev, ifIndexData, ifIndexes, ifTypeData, ifStatusData, wpos, err,
                    before, readOk, vendor, prev, runs, faults >>

\* mutant: the CPU record is inserted at the head of self.OIDS
GetVendor_prepend(p, v) ==
    /\ pc[p] = "vendor"
    /\ vendor' = [vendor EXCEPT ![p] = v]
    /\ OIDS' = [OIDS EXCEPT ![p] =
                  << get_environment_oid(dev[p].device, dev[p].host, dev[p].community, v) >>
                  \o OIDS[p]]
    /\ pc' = [pc EXCEPT ![p] = "open"]
    /\ UNCHANGED << file, exists, dev, ifIndexData, ifIndexes, pos, ifTypeData, ifStatusData, wpos,
                    err, before, readOk, rows, prev, runs, faults >>

\* get_environment_oid: self.get of the vendor description, one CPU record
GetVendor(p, v) ==
    /\ pc[p] = "vendor"
    /\ vendor' = [vendor EXCEPT ![p] = v]
    /\ OIDS' = [OIDS EXCEPT ![p] = Append(OIDS[p],
                  get_environment_oid(dev[p].device, dev[p].host, dev[p].community, v))]
    /\ pc' = [pc EXCEPT ![p] = "open"]
    /\ UNCHANGED << file, exists, dev, ifIndexData, ifIndexes, pos, ifTypeData, ifStatusData, wpos,
                    err, before, readOk, rows, prev, runs, faults >>

\* mutant: the catalog is opened for writing before the SNMP calls, so a
\* failing call leaves it truncated
SnmpFail_truncated(p) ==
    /\ pc[p] \in {"walk", "type", "status", "name", "vendor"}
    /\ faults < MaxFaults
    /\ faults' = faults + 1
    /\ err' = [err EXCEPT ![p] = pc[p]]
    /\ pc' = [pc EXCEPT ![p] = "failed"]
    /\ file' = <<>>
    /\ exists' = TRUE
    /\ UNCHANGED << dev, OIDS, ifIndexData, ifIndexes, pos, ifTypeData, ifStatusData,
                    wpos, before, readOk, rows, vendor, prev, runs >>

\* a walk or get raises: nothing in collect_snmp or get_interface_indexes
\* catches it, the exception leaves collect_snmp
SnmpFail(p) ==
    /\ pc[p] \in {"walk", "type", "status", "name", "vendor"}
    /\ faults < MaxFaults
    /\ faults' = faults + 1
    /\ err' = [err EXCEPT ![p] = pc[p]]
    /\ pc' = [pc EXCEPT ![p] = "failed"]
    /\ UNCHANGED << file, exists, dev, OIDS, ifIndexData, ifIndexes, pos, ifTypeData, ifStatusData,
                    wpos, before, readOk, rows, vendor, prev, runs >>

\* open(self.OIDFILE, 'w') creates or truncates the file
OpenWrite(p) ==
    /\ pc[p] = "open"
    /\ file' = <<>>
    /\ exists' = TRUE
    /\ wpos' = [wpos EXCEPT ![p] = 0]
    /\ pc' = [pc EXCEPT ![p] = IF OIDS[p] = <<>> THEN "done" ELSE "write"]
    /\ UNCHANGED << dev, OIDS, ifIndexData, ifIndexes, pos, ifTypeData, ifStatusData, err,
                    before, readOk, rows, vendor, prev, runs, faults >>

\* open(self.OIDFILE, 'w') raises
OpenFail(p) ==
    /\ pc[p] = "open"
    /\ faults < MaxFaults
    /\ faults' = faults + 1
    /\ err' = [err EXCEPT ![p] = "open"]
    /\ pc' = [pc EXCEPT ![p] = "failed"]
    /\ UNCHANGED << file, exists, dev, OIDS, ifIndexData, ifIndexes, pos, ifTypeData, ifStatusData,
                    wpos, before, readOk, rows, vendor, prev, runs >>

\* oidf.write of the next line, at this run's own file offset; the with block
\* closes the file after the last one
WriteLine(p) ==
    /\ pc[p] = "write"
    /\ file' = WriteAt(file, wpos[p] + 1, OIDS[p][wpos[p] + 1])
    /\ wpos' = [wpos EXCEPT ![p] = wpos[p] + 1]
    /\ pc' = [pc EXCEPT ![p] = IF wpos[p] + 1 = Len(OIDS[p]) THEN "done" ELSE "write"]
    /\ UNCHANGED << exists, dev, OIDS, ifIndexData, ifIndexes, pos, ifTypeData, ifStatusData, err,
                    before, readOk, rows, vendor, prev, runs, faults >>

\* oidf.write raises: the lines written so far stay in the truncated file
WriteFail(p) ==
    /\ pc[p] = "write"
    /\ faults < MaxFaults
    /\ faults' = faults + 1
    /\ err' = [err EXCEPT ![p] = "write"]
    /\ pc' = [pc EXCEPT ![p] = "failed"]
    /\ UNCHANGED << file, exists, dev, OIDS, ifIndexData, ifIndexes, pos, ifTypeData, ifStatusData,
                    wpos, before, readOk, rows, vendor, prev, runs >>

\* ------------------------------------------------------------- specifications
\* the answers of the devices in the catalog-merge specifications
MergeWalks == { WalkData(<<>>), WalkData(<<"5">>) }
MergeTypes == {"135", "24"}
MergeVendors == { <<"0x", SIG_CISCO, "20">> }

\* Spec: the runs of one collector, one after the other, over all devices
Next ==
    \/ \E d \in Devices : collect_snmp(1, d)
    \/ \E d \in Devices : collect_snmp_IOError(1, d)
    \/ \E w \in MergeWalks : Walk(1, w)
    \/ \E t \in MergeTypes : GetType(1, t)
    \/ \E st \in IF_STATUS : GetStatus(1, st)
    \/ \E n \in { <<"e", "/", "0">> } : GetName(1, n)
    \/ \E v \in MergeVendors : GetVendor(1, v)
    \/ SnmpFail(1)
    \/ OpenWrite(1)
    \/ OpenFail(1)
    \/ WriteLine(1)
    \/ WriteFail(1)

Spec == Init /\ [][Next]_vars

\* SpecEnum: one run for router1 against every answer the device may give
EnumDevices == { d \in Devices : d.device = <<"router1">> }

NextEnum ==
    \/ runs = 0 /\ \E d \in EnumDevices : collect_snmp(1, d)
    \/ runs = 0 /\ \E d \in EnumDevices : collect_snmp_IOError(1, d)
    \/ \E w \in WalkValues : Walk(1, w)
    \/ \E t \in IfTypeValues : GetType(1, t)
    \/ \E st \in IfStatusValues : GetStatus(1, st)
    \/ \E n \in IfNameValues : GetName(1, n)
    \/ \E v \in VendorValues : GetVendor(1, v)
    \/ SnmpFail(1)
    \/ OpenWrite(1)
    \/ OpenFail(1)
    \/ WriteLine(1)
    \/ WriteFail(1)

InitEnum ==
    /\ InitBase
    /\ \/ exists = FALSE /\ file = <<>>
       \/ exists = TRUE /\ file = << get_environment_oid(<<"router2">>, <<"10.0.0.2">>,
                                       <<"public">>, <<"0x", SIG_CISCO, "20">>) >>

SpecEnum == InitEnum /\ [][NextEnum]_vars

\* SpecConc: two runs, one per process, whose steps interleave freely
InitConc ==
    /\ InitBase
    /\ \/ exists = FALSE /\ file = <<>>
       \/ exists = TRUE /\ file = <<>>

NextConc ==
    \E p \in Procs :
        \/ pc[p] = "idle" /\ \E d \in Devices : collect_snmp(p, d)
        \/ pc[p] = "idle" /\ \E d \in Devices : collect_snmp_IOError(p, d)
        \/ \E w \in MergeWalks : Walk(p, w)
        \/ \E t \in MergeTypes : GetType(p, t)
        \/ \E st \in IF_STATUS : GetStatus(p, st)
        \/ \E n \in { <<"e", "/", "0">> } : GetName(p, n)
        \/ \E v \in MergeVendors : GetVendor(p, v)
        \/ SnmpFail(p)
        \/ OpenWrite(p)
        \/ OpenFail(p)
        \/ WriteLine(p)
        \/ WriteFail(p)

SpecConc == InitConc /\ [][NextConc]_vars

\* ------------------------------------------------------- reading catalog lines
\* the positions of the commas of a line, in order
CommaPos(line) ==
    SelectSeq([k \in 1..Len(line) |-> k], LAMBDA k : line[k] = ",")

\* field n of a catalog line  K,host,community,oid,metricPath
Field(line, n) ==
    LET cp == CommaPos(line)
    IN  IF n > Len(cp) + 1 THEN <<>>
        ELSE SubSeq(line, IF n = 1 THEN 1 ELSE cp[n - 1] + 1,
                          IF n = Len(cp) + 1 THEN Len(line) ELSE cp[n] - 1)

\* the lines of a catalog whose host field is host
LinesOfHost(lines, host) == SelectSeq(lines, LAMBDA item : Field(item, 2) = host)

\* the interface index a record carries: its OID is <base>.<index>
IndexOf(line) ==
    LET oid == Field(line, 4) IN IF Len(oid) = 3 THEN oid[3] ELSE ""

\* the records of a sequence with a given kind letter and interface index
RecordsOf(lines, kind, index) ==
    SelectSeq(lines, LAMBDA item : Field(item, 1) = <<kind>> /\ IndexOf(item) = index)

\* the hosts of the configured devices
Hosts == { d.host : d \in Devices }

\* ------------------------------------------------------------------- claims
\* C1: host-scoped replacement.  After a successful run for host A on a
\* catalog it read, for every other host B none of whose lines contains A's
\* token, B's lines are the same sequence as before, and the lines of A are
\* exactly the records this run built.
C1_HostScopedReplacement ==
    (pc[1] = "done" /\ readOk[1]) =>
        LET A == dev[1].host
            F == before[1].lines
        IN  /\ LinesOfHost(file, A) = Built(1)
            /\ \A B \in Hosts \ {A} :
                  (\A k \in 1..Len(F) : Field(F[k], 2) = B => ~Contains(A, F[k])) =>
                      LinesOfHost(file, B) = LinesOfHost(F, B)

\* C1 as stated: the same for every successful run on an existing catalog,
\* whether or not its load could read the file.
C1_Original ==
    (pc[1] = "done" /\ before[1].exists) =>
        LET A == dev[1].host
            F == before[1].lines
        IN  /\ LinesOfHost(file, A) = Built(1)
            /\ \A B \in Hosts \ {A} :
                  (\A k \in 1..Len(F) : Field(F[k], 2) = B => ~Contains(A, F[k])) =>
                      LinesOfHost(file, B) = LinesOfHost(F, B)

\* a run for A finished on a catalog that held other records of A and records
\* of a host B free of A's token
C1_Witness ==
    /\ pc[1] = "done" /\ readOk[1]
    /\ LinesOfHost(before[1].lines, dev[1].host) # <<>>
    /\ LinesOfHost(before[1].lines, dev[1].host) # Built(1)
    /\ \E B \in Hosts \ {dev[1].host} :
          /\ LinesOfHost(before[1].lines, B) # <<>>
          /\ \A k \in 1..Len(before[1].lines) :
                Field(before[1].lines[k], 2) = B => ~Contains(dev[1].host, before[1].lines[k])

\* C2: two runs for different hosts that share no token, each of which loaded
\* the catalog as it was on disk, have both completed => the catalog holds the
\* records built by both, however their steps interleaved.
C2_NoLostUpdate ==
    ( /\ pc[1] = "done" /\ pc[2] = "done"
      /\ CurOids(1) = before[1].lines
      /\ CurOids(2) = before[2].lines
      /\ ~Contains(dev[1].host, dev[2].host)
      /\ ~Contains(dev[2].host, dev[1].host) ) =>
        /\ \A k \in 1..Len(Built(1)) : InSeq(Built(1)[k], file)
        /\ \A k \in 1..Len(Built(2)) : InSeq(Built(2)[k], file)

\* C3: a run that failed on opening the catalog for writing or on writing a
\* line leaves every line the catalog held when the run started.
C3_WriteFailureKeepsCatalog ==
    (pc[1] = "failed" /\ err[1] \in {"open", "write"}) =>
        \A k \in 1..Len(before[1].lines) : InSeq(before[1].lines[k], file)

\* C4: a GET failure on the type, status or name of one index does not end
\* the run: the run is never failed because of such a GET.
C4_GetFailureSkipsIndexOnly ==
    ~(pc[1] = "failed" /\ err[1] \in {"type", "status", "name"})

\* C5: a run ended by a failure of the index walk has built no record and
\* leaves the catalog as it was when the run started; and a run that follows
\* a walk-failed run and completes has written exactly the lines it kept from
\* the catalog it loaded and the records it built.
C5_WalkFailureIsPerDevice ==
    /\ (pc[1] = "failed" /\ err[1] = "walk") =>
          /\ Built(1) = <<>>
          /\ file = before[1].lines
          /\ exists = before[1].exists
    /\ (pc[1] = "done" /\ prev[1].err = "walk") =>
          file = parse_oid_file(CurOids(1), dev[1].host) \o Built(1)

\* a run for another device completed after a run whose index walk failed on a
\* catalog that held records
C5_Witness ==
    /\ pc[1] = "done"
    /\ prev[1].err = "walk"
    /\ prev[1].dev.host # dev[1].host
    /\ \E h \in Hosts \ {prev[1].dev.host} : LinesOfHost(file, h) # <<>>
    /\ LinesOfHost(before[1].lines, prev[1].dev.host) # <<>>

\* C6: a successful run that follows a successful run for the same device,
\* the device having answered the walk and every GET the same both times,
\* leaves for that host the same sequence of lines as the first run left.
C6_Idempotence ==
    ( /\ pc[1] = "done"
      /\ prev[1].ok
      /\ prev[1].dev = dev[1]
      /\ prev[1].ifIndexes = ifIndexes[1]
      /\ prev[1].rows = rows[1]
      /\ prev[1].vendor = vendor[1] ) =>
        /\ LinesOfHost(file, dev[1].host) = LinesOfHost(before[1].lines, dev[1].host)
        /\ HostLines(file, dev[1].host) = HostLines(before[1].lines, dev[1].host)

\* the second of two identical successful runs finished, with an accepted
\* interface in both
C6_Witness ==
    /\ pc[1] = "done"
    /\ prev[1].ok
    /\ prev[1].dev = dev[1]
    /\ prev[1].ifIndexes = ifIndexes[1]
    /\ prev[1].rows = rows[1]
    /\ prev[1].vendor = vendor[1]
    /\ Len(Built(1)) > 1
    /\ Len(file) > Len(Built(1))

\* the answer the run has for a walked index whose type / status test is over
RowOf(p, index) == CHOOSE r \in { rows[p][k] : k \in 1..Len(rows[p]) } : r.index = index

Answered(p) == { rows[p][k].index : k \in 1..Len(rows[p]) }

\* C7: in a completed run, an index whose type is not 6, 135 or 131 or whose
\* status is not 1 contributes no record, and every record that carries an
\* index carries one whose type is 6, 135 or 131 and whose status is 1.
C7_InterfaceFilter ==
    pc[1] = "done" =>
    LET B == Built(1)
        carried == { IndexOf(B[j]) : j \in 1..Len(B) } \ {""}
    IN  /\ \A k \in 1..Len(rows[1]) :
              (rows[1][k].type \notin {"6", "135", "131"} \/ rows[1][k].status # "1") =>
                  rows[1][k].index \notin carried
        /\ \A i \in carried :
              /\ i \in Answered(1)
              /\ RowOf(1, i).type \in {"6", "135", "131"}
              /\ RowOf(1, i).status = "1"

\* a run finished that skipped one index and accepted another
C7_Witness ==
    /\ pc[1] = "done"
    /\ \E k \in 1..Len(rows[1]) :
          rows[1][k].type \in {"6", "135", "131"} /\ rows[1][k].status = "2"
    /\ \E j \in 1..Len(Built(1)) : IndexOf(Built(1)[j]) # ""

\* kind letter, interface index and OID of every record of a sequence
Parsed(lines) ==
    [j \in 1..Len(lines) |->
        [kind |-> Field(lines[j], 1), index |-> IndexOf(lines[j]), oid |-> Field(lines[j], 4)]]

\* the OIDs, in order, of the parsed records of one kind and index
OidsOf(parsed, kind, index) ==
    LET sel == SelectSeq(parsed, LAMBDA r : r.kind = <<kind>> /\ r.index = index)
    IN  [j \in 1..Len(sel) |-> sel[j].oid]

\* C8: in a completed run, an accepted index of type 135 has one C record per
\* counter-table entry and no G record; an accepted index of type 6 or 131 has
\* one G record per gauge-table entry and one C record per counter-table entry.
C8_KindsByType ==
    pc[1] = "done" =>
    LET P == Parsed(Built(1))
    IN  \A k \in 1..Len(rows[1]) :
            LET r == rows[1][k]
            IN  (r.type \in {"6", "135", "131"} /\ r.status = "1") =>
                  /\ OidsOf(P, "C", r.index) =
                        [j \in 1..Len(IF_MIB_COUNTER_OID_TABLE) |->
                            << IF_MIB_COUNTER_OID_TABLE[j][2], ".", r.index >>]
                  /\ r.type = "135" => OidsOf(P, "G", r.index) = <<>>
                  /\ r.type \in {"6", "131"} =>
                        OidsOf(P, "G", r.index) =
                            [j \in 1..Len(IF_MIB_GAUGE_OID_TABLE) |->
                                << IF_MIB_GAUGE_OID_TABLE[j][2], ".", r.index >>]

\* a run finished with an accepted index of type 135 and one of type 6 or 131
C8_Witness ==
    /\ pc[1] = "done"
    /\ \E k \in 1..Len(rows[1]) : rows[1][k].type = "135" /\ rows[1][k].status = "1"
    /\ \E k \in 1..Len(rows[1]) : rows[1][k].type \in {"6", "131"} /\ rows[1][k].status = "1"

\* the last n symbols of a text
Suffix(s, n) == SubSeq(s, Len(s) - n + 1, Len(s))

\* C9: in a completed run, for each octets counter of an accepted index there
\* is one record per configured unit label, named with that label in place of
\* Octets; so the index has more than 8 counter records.
C9_OctetsPerUnit ==
    pc[1] = "done" =>
    \A k \in 1..Len(rows[1]) :
        LET r == rows[1][k]
            C == RecordsOf(Built(1), "C", r.index)
        IN  (r.type \in {"6", "135", "131"} /\ r.status = "1") =>
              /\ Len(C) > 8
              /\ \A u \in {"bit", "byte"} : \A dir \in {"ifIn", "ifOut"} :
                    \E j \in 1..Len(C) : Suffix(Field(C[j], 5), 2) = << dir, u >>

\* does a vendor description hold a signature
HasSig(v, sig) == \E k \in 1..Len(v) : v[k] = sig

\* the records of a sequence whose metric path is devices.<device>.cpu.<name>
CpuRecords(lines) ==
    SelectSeq(lines, LAMBDA item :
        Len(Field(item, 5)) = 7 /\ Field(item, 5)[5] = "cpu")

\* C10: a completed run has built exactly
\* one CPU record, with the IOS-XE OID if the description holds the IOS-XE
\* signature, else the legacy Cisco OID if it holds the Cisco signature, else
\* the generic OID and the metric current_percent.
C10_VendorPriority ==
    pc[1] = "done" =>
        LET cpu == CpuRecords(Built(1))
            v == vendor[1]
        IN  /\ Len(cpu) = 1
            /\ HasSig(v, "494f532d5845") =>
                  Field(cpu[1], 4) = <<"1.3.6.1.4.1.9.9.109.1.1.1.1.7.2">>
            /\ (~HasSig(v, "494f532d5845") /\ HasSig(v, "436973636f")) =>
                  Field(cpu[1], 4) = <<"1.3.6.1.4.1.9.9.109.1.1.1.1.7.1">>
            /\ (~HasSig(v, "494f532d5845") /\ ~HasSig(v, "436973636f")) =>
                  /\ Field(cpu[1], 4) = <<"1.3.6.1.4.1.1588.2.1.1.1.26.1.0">>
                  /\ Suffix(Field(cpu[1], 5), 3) = <<"cpu", ".", "current_percent">>

\* a run finished for a device whose description holds both signatures
C10_Witness ==
    /\ pc[1] = "done"
    /\ HasSig(vendor[1], "494f532d5845")
    /\ HasSig(vendor[1], "436973636f")

\* ------------------------------------------------------- name specification
\* SpecName: one run for router1 with one accepted interface of type 6 whose
\* name is any text of at most MaxNameLen characters: a letter, the
\* underscore, the slash, the dot and the two quotes
NameAlphabet == {"e", "_", "/", ".", "\"", "'"}
NameValues == UNION { [1..n -> NameAlphabet] : n \in 0..MaxNameLen }

NextName ==
    \/ runs = 0 /\ \E d \in EnumDevices : collect_snmp(1, d)
    \/ runs = 0 /\ \E d \in EnumDevices : collect_snmp_IOError(1, d)
    \/ Walk(1, WalkData(<<"5">>))
    \/ GetType(1, "6")
    \/ GetStatus(1, "1")
    \/ \E n \in NameValues : GetName(1, n)
    \/ \E v \in MergeVendors : GetVendor(1, v)
    \/ OpenWrite(1)
    \/ WriteLine(1)

SpecName == InitEnum /\ [][NextName]_vars

\* the sanitized interface name inside the metric path of an interface record:
\* devices.<device>.<path>.<name>.<metric>
DescrOf(line) ==
    LET path == Field(line, 5)
        tail == IF path[Len(path)] = "Octets" THEN 3 ELSE 2
    IN  SubSeq(path, 7, Len(path) - tail)

\* C11: in every gauge and counter record of a completed run the interface
\* name is made of letters, digits and underscore only, it is the name the
\* device gave without its quotes and with every other character that is not
\* a letter, digit or underscore replaced by "_", and sanitizing it again
\* returns it unchanged.
C11_Sanitization ==
    pc[1] = "done" =>
        \A k \in 1..Len(rows[1]) : \A j \in 1..Len(Built(1)) :
            IndexOf(Built(1)[j]) = rows[1][k].index =>
                LET d == DescrOf(Built(1)[j])
                    raw == SelectSeq(rows[1][k].name, LAMBDA c : c # "\"" /\ c # "'")
                IN  /\ \A i \in 1..Len(d) : d[i] \in WordChars
                    /\ d = [i \in 1..Len(raw) |->
                              IF raw[i] \in WordChars THEN raw[i] ELSE "_"]
                    /\ ReplaceNonWord(StripQuotes(d)) = d

\* a run finished for an interface whose name holds a quote, a dot and a
\* word character
C11_Witness ==
    /\ pc[1] = "done"
    /\ \E k \in 1..Len(rows[1]) :
          /\ \E i \in 1..Len(rows[1][k].name) : rows[1][k].name[i] = "\""
          /\ \E i \in 1..Len(rows[1][k].name) : rows[1][k].name[i] = "."
          /\ \E i \in 1..Len(rows[1][k].name) : rows[1][k].name[i] = "e"
    /\ \E j \in 1..Len(Built(1)) : IndexOf(Built(1)[j]) = "5"

\* is a record a CPU record: its metric path is devices.<device>.cpu.<name>
IsCpuRecord(line) == Len(Field(line, 5)) = 7 /\ Field(line, 5)[5] = "cpu"

\* C12: after a successful run for host h the catalog is the lines the run
\* loaded that do not contain h, in their old order, followed by the records
\* the run built: the interface records, then the CPU record.
C12_MergeOrdering ==
    pc[1] = "done" =>
        LET F == CurOids(1)
            S == SelectSeq(F, LAMBDA item : ~Contains(dev[1].host, item))
            B == SubSeq(file, Len(S) + 1, Len(file))
        IN  /\ Len(file) > Len(S)
            /\ SubSeq(file, 1, Len(S)) = S
            /\ B = Built(1)
            /\ IsCpuRecord(B[Len(B)])
            /\ \A j \in 1..(Len(B) - 1) : IndexOf(B[j]) # "" /\ ~IsCpuRecord(B[j])

\* a run finished that kept two or more lines and built interface records
C12_Witness ==
    /\ pc[1] = "done"
    /\ Len(file) - Len(Built(1)) >= 2
    /\ Len(Built(1)) > 1
    /\ Len(before[1].lines) > Len(file) - Len(Built(1))

\* C13: among the records built by a completed run for a device that reports
\* pairwise different interface names, two records with different OIDs (that
\* is, of different interface index or metric) have different metric paths.
C13_MetricPathUnique ==
    ( /\ pc[1] = "done"
      /\ \A k, l \in 1..Len(rows[1]) : k # l => rows[1][k].name # rows[1][l].name ) =>
        \A i, j \in 1..Len(Built(1)) :
            Field(Built(1)[i], 4) # Field(Built(1)[j], 4) =>
                Field(Built(1)[i], 5) # Field(Built(1)[j], 5)

\* C14: a run whose load found the catalog missing or unreadable goes on to
\* the index walk with the empty list, and when it completes the catalog is
\* exactly the records it built: every line is a record of its host, the
\* interface records of the accepted indices and one CPU record at the end.
C14_MissingOrUnreadable ==
    /\ (pc[1] = "walk" /\ ~readOk[1]) => OIDS[1] = <<>>
    /\ (pc[1] = "done" /\ ~readOk[1]) =>
          /\ file = Built(1)
          /\ \A j \in 1..Len(file) : Field(file[j], 2) = dev[1].host
          /\ IsCpuRecord(file[Len(file)])
          /\ \A j \in 1..(Len(file) - 1) : IndexOf(file[j]) \in Answered(1)

\* a run completed whose load could not read a catalog that held lines
C14_Witness ==
    /\ pc[1] = "done"
    /\ ~readOk[1]
    /\ before[1].exists
    /\ before[1].lines # <<>>

\* C15: after a successful run for host h on a catalog it read, every line
\* whose host field is another host is in the catalog exactly when it was in
\* it before the run.
C15_RecordOwnership ==
    (pc[1] = "done" /\ readOk[1]) =>
        /\ \A k \in 1..Len(before[1].lines) :
              Field(before[1].lines[k], 2) # dev[1].host => InSeq(before[1].lines[k], file)
        /\ \A k \in 1..Len(file) :
              Field(file[k], 2) # dev[1].host => InSeq(file[k], before[1].lines)

\* C16: after a successful run for host h the lines of the catalog that
\* contain h anywhere in their text are exactly the records the run built, in
\* the order it built them: no line of the previous catalog that contains h
\* is left beside them.
C16_PurgeBeforeAppend ==
    pc[1] = "done" =>
        LET mine == { k \in 1..Len(file) : Contains(dev[1].host, file[k]) }
        IN  /\ mine = (Len(file) - Len(Built(1)) + 1)..Len(file)
            /\ SubSeq(file, Len(file) - Len(Built(1)) + 1, Len(file)) = Built(1)

\* a run finished on a catalog that held a line of another host containing
\* the token of the run's host, and lines of the run's host
C16_Witness ==
    /\ pc[1] = "done"
    /\ \E k \in 1..Len(before[1].lines) :
          /\ Contains(dev[1].host, before[1].lines[k])
          /\ Field(before[1].lines[k], 2) # dev[1].host
    /\ \E k \in 1..Len(before[1].lines) : Field(before[1].lines[k], 2) = dev[1].host
    /\ Len(file) > Len(Built(1))

\* the steps of a run at which an SNMP walk or get is the next thing it does
SnmpSteps == {"walk", "type", "status", "name", "vendor"}

\* C17: the catalog is loaded only after all SNMP walks and gets of the run
\* are over: a run that has loaded the catalog and not yet written it has no
\* SNMP call left to make.
C17_LoadAfterSnmp ==
    \A p \in Procs : pc[p] \notin SnmpSteps

\* C19: a run that failed in the index walk, in a type, status or name get or
\* in the vendor get has left the catalog file exactly as it was when the run
\* started, the old records of the run's host included; and no run touches
\* the file while it still has SNMP calls to make.
C19_SnmpFailureKeepsCatalog ==
    /\ (pc[1] = "failed" /\ err[1] \in SnmpSteps) =>
          /\ file = before[1].lines
          /\ exists = before[1].exists
    /\ pc[1] \in SnmpSteps =>
          /\ file = before[1].lines
          /\ exists = before[1].exists

\* a run that read a catalog holding records of its host, purged them in
\* memory, built new records and then failed in the vendor get
C19_Witness ==
    /\ pc[1] = "failed"
    /\ err[1] = "vendor"
    /\ readOk[1]
    /\ \E k \in 1..Len(file) : Field(file[k], 2) = dev[1].host
    /\ \A k \in 1..Len(OIDS[1]) : ~InSeq(OIDS[1][k], file) \/ Field(OIDS[1][k], 2) # dev[1].host
    /\ \E k \in 1..Len(OIDS[1]) : Field(OIDS[1][k], 2) = dev[1].host

\* ------------------------------------------------------------- SpecExample
\* SpecExample: the example configuration of the module's documentation, on
\* a new installation: sections router1 and router2, both with
\* host = router1.example.com and community = public, each discovered once,
\* one run after the other, in either order, with no failure
ExampleDevices ==
    { [device |-> <<"router1">>, host |-> <<"router1.example.com">>, community |-> <<"public">>],
      [device |-> <<"router2">>, host |-> <<"router1.example.com">>, community |-> <<"public">>] }

ExampleWalks == { WalkData(<<"5">>), WalkData(<<"7", "5">>) }
ExampleTypes == {"6", "135"}
ExampleNames == { <<"G", "i", "0", "/", "1">> }

InitExample ==
    /\ InitBase
    /\ exists = FALSE
    /\ file = <<>>

NextExample ==
    \/ \E d \in ExampleDevices : d # dev[1] /\ collect_snmp(1, d)
    \/ \E d \in ExampleDevices : ~exists /\ collect_snmp_IOError(1, d)
    \/ \E w \in ExampleWalks : Walk(1, w)
    \/ \E t \in ExampleTypes : GetType(1, t)
    \/ \E st \in IfStatusValues : GetStatus(1, st)
    \/ \E n \in ExampleNames : GetName(1, n)
    \/ \E v \in MergeVendors : GetVendor(1, v)
    \/ OpenWrite(1)
    \/ WriteLine(1)

SpecExample == InitExample /\ [][NextExample]_vars

\* the record of one metric of one interface, written out field by field
RecordLine(kind, d, baseOid, index, descr, metric) ==
    <<kind, ",">> \o d.host \o <<",">> \o d.community
    \o <<",", baseOid, ".", index, ",", "devices", ".">> \o d.device
    \o <<".", "interface", ".">> \o descr \o <<".">> \o metric

\* the interface name with the quotes removed and every other character that
\* is not a word character replaced by an underscore
Sanitized(name) ==
    LET q == SelectSeq(name, LAMBDA c : c # "\"" /\ c # "'")
    IN  [i \in 1..Len(q) |-> IF q[i] \in WordChars THEN q[i] ELSE "_"]

\* C18: when a run is done, the k-th answer belongs to the k-th row of the
\* index walk; for every accepted row the run built, with the VALUE of that
\* row as index, one record C,host,community,<base OID>.<index>,
\* devices.<device>.interface.<sanitized name>.<metric> per entry of the
\* counter table and, unless the type is 135, one record G,... per entry of
\* the gauge table; every interface record it built is one of these; and
\* index 5 named Gi0/1 of type 6 on router1 yields the two records of the
\* example.
C18_RecordConstruction ==
    pc[1] = "done" =>
        LET B == Built(1)
            Ok(k) == rows[1][k].type \in {"6", "135", "131"} /\ rows[1][k].status = "1"
            G(k, t) == RecordLine("G", dev[1], IF_MIB_GAUGE_OID_TABLE[t][2],
                                  ifIndexData[1][k].value, Sanitized(rows[1][k].name),
                                  IF_MIB_GAUGE_OID_TABLE[t][1])
            C(k, t) == RecordLine("C", dev[1], IF_MIB_COUNTER_OID_TABLE[t][2],
                                  ifIndexData[1][k].value, Sanitized(rows[1][k].name),
                                  IF_MIB_COUNTER_OID_TABLE[t][1])
        IN  /\ Len(rows[1]) = Len(ifIndexData[1])
            /\ \A k \in 1..Len(rows[1]) : Ok(k) =>
                  /\ \A t \in 1..Len(IF_MIB_COUNTER_OID_TABLE) : InSeq(C(k, t), B)
                  /\ rows[1][k].type # "135" =>
                        \A t \in 1..Len(IF_MIB_GAUGE_OID_TABLE) : InSeq(G(k, t), B)
            /\ \A j \in 1..(Len(B) - 1) : \E k \in 1..Len(rows[1]) :
                  /\ Ok(k)
                  /\ \/ \E t \in 1..Len(IF_MIB_COUNTER_OID_TABLE) : B[j] = C(k, t)
                     \/ /\ rows[1][k].type # "135"
                        /\ \E t \in 1..Len(IF_MIB_GAUGE_OID_TABLE) : B[j] = G(k, t)
            /\ ( /\ dev[1].device = <<"router1">>
                 /\ \E k \in 1..Len(rows[1]) :
                       /\ ifIndexData[1][k].value = "5"
                       /\ rows[1][k] = [index |-> "5", type |-> "6", status |-> "1",
                                        name |-> <<"G", "i", "0", "/", "1">>] ) =>
                  /\ InSeq(<<"G", ",", "router1.example.com", ",", "public", ",",
                             "1.3.6.1.2.1.2.2.1.13", ".", "5", ",",
                             "devices", ".", "router1", ".", "interface", ".",
                             "G", "i", "0", "_", "1", ".", "ifInDiscards">>, B)
                  /\ InSeq(<<"C", ",", "router1.example.com", ",", "public", ",",
                             "1.3.6.1.2.1.31.1.1.1.6", ".", "5", ",",
                             "devices", ".", "router1", ".", "interface", ".",
                             "G", "i", "0", "_", "1", ".", "ifIn", "Octets">>, B)

\* router1's run is done; the walk reported index 7 before index 5, index 5 is
\* Gi0/1 of type 6 and up, and its records are in the catalog
C18_Witness ==
    /\ pc[1] = "done"
    /\ dev[1].device = <<"router1">>
    /\ Len(ifIndexData[1]) = 2
    /\ ifIndexData[1][2] = [key |-> "1.3.6.1.2.1.2.2.1.1.5", value |-> "5"]
    /\ rows[1][2] = [index |-> "5", type |-> "6", status |-> "1",
                     name |-> <<"G", "i", "0", "/", "1">>]
    /\ \E j \in 1..Len(file) : IndexOf(file[j]) = "5" /\ Field(file[j], 1) = <<"G">>

\* C20: after one successful run for each section of the example
\* configuration, in either order, the catalog holds the records the first
\* run built and the records the second run built.
C20_EveryDeviceServed ==
    ( /\ pc[1] = "done"
      /\ prev[1].ok
      /\ prev[1].dev \in ExampleDevices
      /\ prev[1].dev # dev[1] ) =>
        /\ \A k \in 1..Len(before[1].lines) : InSeq(before[1].lines[k], file)
        /\ \A k \in 1..Len(Built(1)) : InSeq(Built(1)[k], file)

====
